---------------------------- MODULE Spec2Model ----------------------------
(***************************************************************************)
(* Session orchestrator of src-tauri/src/lib.rs: the shared AppState, the  *)
(* four tauri commands (connect_obs, play_highlights, set_sleep_duration,  *)
(* get_sleep_duration), start_system and the run_main_system task with its *)
(* UDP channel and its post-trigger sleep.                                 *)
(*                                                                         *)
(* The commands run on a multi-threaded runtime: every lock acquisition,   *)
(* every awaited backend call and every channel operation is one atomic    *)
(* step, and steps of different invocations and tasks interleave freely.   *)
(***************************************************************************)
EXTENDS Integers, Sequences, FiniteSets, TLC

\* ---- bounds of the model ------------------------------------------------
\* number of connect_obs invocations made by the front end
MaxCalls == 2
\* number of play_highlights invocations made by the front end
MaxPlays == 1
\* number of raw messages the UDP listeners enqueue in total
MaxMsgs == 1
\* the same for the specification of one session's dispatch loop
MaxDispatchMsgs == 3
\* largest argument of set_sleep_duration in the specification of the accessors
MaxDelayArg == 60

\* ---- program constants --------------------------------------------------
DefaultSleepSec == 3
MinSleepSec == 1
MaxSleepSec == 30
ChannelCapacity == 32

None == "None"
\* (host, port, password) triples the front end passes to connect_obs
Endpoints == {"ep1", "ep2"}
\* u64 arguments the front end passes to set_sleep_duration: below, inside
\* and above the range; and the one it passes while sessions are raced
DelayInputs == {0, 2, 31}
RaceDelayInputs == {0}
\* raw UDP payloads: two trigger commands, one other command, one malformed
RawMsgs == {"Scored", "EpicSave", "Other", "???"}
MugiCmd == {"Scored", "EpicSave", "Other"}

\* clip lists the front end passes to play_highlights
PathInputs == {<<>>, <<"clip1", "clip2">>}

CallIds == 1..MaxCalls
PlayIds == 1..MaxPlays

VARIABLES
    obs_connection_info,   \* AppState.obs_connection_info: None or an endpoint
    is_system_running,     \* AppState.is_system_running
    sleep_duration_sec,    \* AppState.sleep_duration_sec
    calls,                 \* connect_obs invocations: position, arguments, result
    plays,                 \* play_highlights invocations: position, arguments, result
    loops,                 \* spawned run_main_system tasks, in spawn order
    obs_connections,       \* number of obs.connect calls made so far
    delay_call             \* last get/set_sleep_duration call with the value it
                           \* returned, and the argument of the last set

vars == <<obs_connection_info, is_system_running, sleep_duration_sec, calls,
          plays, loops, obs_connections, delay_call>>

\* ---- pure helpers ---------------------------------------------------------
Max(a, b) == IF a >= b THEN a ELSE b
Min(a, b) == IF a <= b THEN a ELSE b

\* variant: the two bounds applied in the wrong order, duration.min(1).max(30)
clamped_duration_swapped(duration) == Max(Min(duration, MinSleepSec), MaxSleepSec)

\* variant: the lower bound is not applied, duration.min(30)
clamped_duration_no_floor(duration) == Min(duration, MaxSleepSec)

\* duration.max(1).min(30)
clamped_duration(duration) == Min(Max(duration, MinSleepSec), MaxSleepSec)

\* mugi_schema::parse_cmd: a command of the vocabulary, or a decode failure
parse_cmd(d) == IF d \in MugiCmd THEN [ok |-> TRUE, cmd |-> d]
                ELSE [ok |-> FALSE, cmd |-> None]

\* variant: every decoded command fires
IsTrigger_any_command(d) == parse_cmd(d).ok

\* cmd == MugiCmd::Scored || cmd == MugiCmd::EpicSave
IsTrigger(d) == parse_cmd(d).ok /\ (parse_cmd(d).cmd = "Scored" \/ parse_cmd(d).cmd = "EpicSave")

LoopIds == 1..Len(loops)
Terminated(l) == loops[l].pc \in {"exited", "failed"}
Live(l) == ~Terminated(l)
LiveLoops == {l \in LoopIds : Live(l)}

RECURSIVE SumSent(_)
SumSent(n) == IF n = 0 THEN 0 ELSE Len(loops[n].sent) + SumSent(n - 1)

\* ---- initial state: AppState::new, no command invoked yet ---------------
NewPlay == [pc |-> "idle", video_paths |-> <<>>, ep |-> None, result |-> None,
            played |-> 0]
NewCall == [pc |-> "idle", ep |-> None, passed |-> {}, result |-> None]

Init ==
    /\ obs_connection_info = None
    /\ is_system_running = FALSE
    /\ sleep_duration_sec = DefaultSleepSec
    /\ calls = [c \in CallIds |-> NewCall]
    /\ plays = [p \in PlayIds |-> NewPlay]
    /\ loops = <<>>
    /\ obs_connections = 0
    /\ delay_call = [op |-> "none", was_set |-> FALSE, input |-> 0, ret |-> 0]

\* ---- get_sleep_duration / set_sleep_duration ------------------------------
get_sleep_duration ==
    /\ delay_call' = [delay_call EXCEPT !.op = "get", !.ret = sleep_duration_sec]
    /\ UNCHANGED <<plays, obs_connection_info, is_system_running, sleep_duration_sec,
                   calls, loops, obs_connections>>

set_sleep_duration(duration) ==
    /\ sleep_duration_sec' = clamped_duration(duration)
    /\ delay_call' = [op |-> "set", was_set |-> TRUE, input |-> duration,
                      ret |-> clamped_duration(duration)]
    /\ UNCHANGED <<plays, obs_connection_info, is_system_running, calls, loops,
                   obs_connections>>

\* ---- play_highlights ------------------------------------------------------
\* the reply of an invocation; video_paths stays as the record of what was asked
PlayReturn(p, res, n) == [plays EXCEPT ![p].pc = "done", ![p].ep = None,
                                       ![p].result = res, ![p].played = n]

\* variant: the stored endpoint is looked up before the list is tested
play_highlights_begin_lookup_first(p, video_paths) ==
    /\ plays[p].pc = "idle"
    /\ IF p = 1 THEN TRUE ELSE plays[p - 1].pc # "idle"
    /\ plays' = IF obs_connection_info = None
                THEN [PlayReturn(p, "NoConnectionInfo", 0) EXCEPT
                            ![p].video_paths = video_paths]
                ELSE IF video_paths = <<>>
                THEN [PlayReturn(p, "NothingToPlay", 0) EXCEPT
                            ![p].video_paths = video_paths]
                ELSE [plays EXCEPT ![p].pc = "connect", ![p].video_paths = video_paths,
                                   ![p].ep = obs_connection_info]
    /\ UNCHANGED <<obs_connection_info, is_system_running, sleep_duration_sec,
                   calls, loops, obs_connections, delay_call>>

\* invocation, video_paths.is_empty() and the read of obs_connection_info
\* (lines 66-77)
play_highlights_begin(p, video_paths) ==
    /\ plays[p].pc = "idle"
    /\ IF p = 1 THEN TRUE ELSE plays[p - 1].pc # "idle"
    /\ plays' = IF video_paths = <<>>
                THEN [PlayReturn(p, "NothingToPlay", 0) EXCEPT
                            ![p].video_paths = video_paths]
                ELSE IF obs_connection_info = None
                THEN [PlayReturn(p, "NoConnectionInfo", 0) EXCEPT
                            ![p].video_paths = video_paths]
                ELSE [plays EXCEPT ![p].pc = "connect", ![p].video_paths = video_paths,
                                   ![p].ep = obs_connection_info]
    /\ UNCHANGED <<obs_connection_info, is_system_running, sleep_duration_sec,
                   calls, loops, obs_connections, delay_call>>

\* variant: a failed connection makes the invocation forget the stored endpoint
play_highlights_connect_forgets(p, ok) ==
    /\ plays[p].pc = "connect"
    /\ obs_connections' = obs_connections + 1
    /\ obs_connection_info' = IF ok THEN obs_connection_info ELSE None
    /\ plays' = IF ok THEN [plays EXCEPT ![p].pc = "play_vlc_source"]
                ELSE PlayReturn(p, "BackendConnectFailed", 0)
    /\ UNCHANGED <<is_system_running, sleep_duration_sec, calls, loops, delay_call>>

\* obs.connect(&host, port, password_ref).await ... ? (lines 80-84)
play_highlights_connect(p, ok) ==
    /\ plays[p].pc = "connect"
    /\ obs_connections' = obs_connections + 1
    /\ plays' = IF ok THEN [plays EXCEPT ![p].pc = "play_vlc_source"]
                ELSE PlayReturn(p, "BackendConnectFailed", 0)
    /\ UNCHANGED <<obs_connection_info, is_system_running, sleep_duration_sec,
                   calls, loops, delay_call>>

\* obs.play_vlc_source(&movie_pathes).await and the reply (lines 87-98)
play_highlights_play(p, ok) ==
    /\ plays[p].pc = "play_vlc_source"
    /\ plays' = IF ok THEN PlayReturn(p, "Played", Len(plays[p].video_paths))
                ELSE PlayReturn(p, "PlaybackFailed", 0)
    /\ UNCHANGED <<obs_connection_info, is_system_running, sleep_duration_sec,
                   calls, loops, obs_connections, delay_call>>

\* ---- connect_obs ----------------------------------------------------------
\* the arguments and locals of an invocation are dropped when it returns
Return(c, res) == [calls EXCEPT ![c] = [pc |-> "done", ep |-> None, passed |-> {},
                                        result |-> res]]
Goto(c, step) == [calls EXCEPT ![c].pc = step,
                               ![c].passed = calls[c].passed \cup {calls[c].pc}]

\* variant: the guard on is_system_running is missing
connect_obs_unguarded(c, ep) ==
    /\ calls[c].pc = "idle"
    /\ IF c = 1 THEN TRUE ELSE calls[c - 1].pc # "idle"
    /\ calls' = [calls EXCEPT ![c].pc = "connect", ![c].ep = ep]
    /\ UNCHANGED <<plays, obs_connection_info, is_system_running, sleep_duration_sec,
                   loops, obs_connections, delay_call>>

\* invocation and the guard on is_system_running (lines 109-117);
\* invocations are numbered in the order in which they are made
connect_obs_guard(c, ep) ==
    /\ calls[c].pc = "idle"
    /\ IF c = 1 THEN TRUE ELSE calls[c - 1].pc # "idle"
    /\ IF is_system_running
       THEN calls' = Return(c, "AlreadyRunning")
       ELSE calls' = [calls EXCEPT ![c].pc = "connect", ![c].ep = ep]
    /\ UNCHANGED <<plays, obs_connection_info, is_system_running, sleep_duration_sec,
                   loops, obs_connections, delay_call>>

\* variant: the flag is raised before the backend is validated
connect_obs_connect_raises_flag(c, ok) ==
    /\ calls[c].pc = "connect"
    /\ obs_connections' = obs_connections + 1
    /\ is_system_running' = TRUE
    /\ calls' = IF ok THEN Goto(c, "set_replay_buffer")
                ELSE Return(c, "BackendConnectFailed")
    /\ UNCHANGED <<plays, obs_connection_info, sleep_duration_sec, loops, delay_call>>

\* variant: the endpoint is stored as soon as the connection is made
connect_obs_connect_stores_endpoint(c, ok) ==
    /\ calls[c].pc = "connect"
    /\ obs_connections' = obs_connections + 1
    /\ obs_connection_info' = IF ok THEN calls[c].ep ELSE obs_connection_info
    /\ calls' = IF ok THEN Goto(c, "set_replay_buffer")
                ELSE Return(c, "BackendConnectFailed")
    /\ UNCHANGED <<plays, is_system_running, sleep_duration_sec, loops, delay_call>>

\* obs.connect(...).await (lines 119-125, 148-151)
connect_obs_connect(c, ok) ==
    /\ calls[c].pc = "connect"
    /\ obs_connections' = obs_connections + 1
    /\ calls' = IF ok THEN Goto(c, "set_replay_buffer")
                ELSE Return(c, "BackendConnectFailed")
    /\ UNCHANGED <<plays, obs_connection_info, is_system_running, sleep_duration_sec,
                   loops, delay_call>>

\* obs.set_replay_buffer().await (lines 128-130)
connect_obs_set_replay_buffer(c, ok) ==
    /\ calls[c].pc = "set_replay_buffer"
    /\ calls' = IF ok THEN Goto(c, "init_vlc_source")
                ELSE Return(c, "ConfigureReplayBufferFailed")
    /\ UNCHANGED <<plays, obs_connection_info, is_system_running, sleep_duration_sec,
                   loops, obs_connections, delay_call>>

\* obs.init_vlc_source().await (lines 133-135)
connect_obs_init_vlc_source(c, ok) ==
    /\ calls[c].pc = "init_vlc_source"
    /\ calls' = IF ok THEN Goto(c, "save_info")
                ELSE Return(c, "InitVideoSourceFailed")
    /\ UNCHANGED <<plays, obs_connection_info, is_system_running, sleep_duration_sec,
                   loops, obs_connections, delay_call>>

\* variant: the endpoint is not stored before the system is started
connect_obs_save_info_skipped(c) ==
    /\ calls[c].pc = "save_info"
    /\ calls' = Goto(c, "start_system")
    /\ UNCHANGED <<plays, obs_connection_info, is_system_running, sleep_duration_sec,
                   loops, obs_connections, delay_call>>

\* *conn_info = Some((host, port, password)) (lines 138-141)
connect_obs_save_info(c) ==
    /\ calls[c].pc = "save_info"
    /\ obs_connection_info' = calls[c].ep
    /\ calls' = Goto(c, "start_system")
    /\ UNCHANGED <<plays, is_system_running, sleep_duration_sec, loops,
                   obs_connections, delay_call>>

\* start_system: *is_running = true (lines 165-168)
start_system_set_running(c) ==
    /\ calls[c].pc = "start_system"
    /\ is_system_running' = TRUE
    /\ calls' = Goto(c, "spawn")
    /\ UNCHANGED <<plays, obs_connection_info, sleep_duration_sec, loops,
                   obs_connections, delay_call>>

NewLoop(c) == [pc |-> "connect", ep |-> calls[c].ep, listener |-> "none", rx |-> <<>>,
               \* rx: the channel; duration, elapsed: the sleep in progress;
               \* in_wait: messages enqueued during it; saves: the results of
               \* the save_replay_buffer calls; sent, handled: the messages
               \* enqueued and dequeued so far
               duration |-> 0, elapsed |-> 0, in_wait |-> 0, saves |-> <<>>,
               sent |-> <<>>, handled |-> <<>>]

\* variant: run_main_system is awaited instead of spawned, and the invocation
\* returns once it has ended (here: by a failed reconnect)
start_system_awaits(c) ==
    /\ calls[c].pc = "spawn"
    /\ loops' = Append(loops, [NewLoop(c) EXCEPT !.pc = "failed"])
    /\ obs_connections' = obs_connections + 1
    /\ calls' = Return(c, "Ok")
    /\ UNCHANGED <<plays, obs_connection_info, is_system_running, sleep_duration_sec,
                   delay_call>>

\* start_system: tokio::spawn(run_main_system(...)), then both functions return Ok
start_system_spawn(c) ==
    /\ calls[c].pc = "spawn"
    /\ loops' = Append(loops, NewLoop(c))
    /\ calls' = Return(c, "Ok")
    /\ UNCHANGED <<plays, obs_connection_info, is_system_running, sleep_duration_sec,
                   obs_connections, delay_call>>

\* ---- run_main_system ------------------------------------------------------
SetLoop(l, r) == [loops EXCEPT ![l] = r]
\* variant: a failed setup step starts the setup over
Step_retries(l, ok, next) ==
    SetLoop(l, [loops[l] EXCEPT !.pc = IF ok THEN next ELSE "connect"])

Step(l, ok, next) == SetLoop(l, [loops[l] EXCEPT !.pc = IF ok THEN next ELSE "failed"])

\* obs.connect(...).await ... ? (lines 200-204)
run_connect(l, ok) ==
    /\ loops[l].pc = "connect"
    /\ obs_connections' = obs_connections + 1
    /\ loops' = Step(l, ok, "set_replay_buffer")
    /\ UNCHANGED <<plays, obs_connection_info, is_system_running, sleep_duration_sec,
                   calls, delay_call>>

\* obs.set_replay_buffer().await ... ? (lines 206-208)
run_set_replay_buffer(l, ok) ==
    /\ loops[l].pc = "set_replay_buffer"
    /\ loops' = Step(l, ok, "init_vlc_source")
    /\ UNCHANGED <<plays, obs_connection_info, is_system_running, sleep_duration_sec,
                   calls, obs_connections, delay_call>>

\* obs.init_vlc_source().await ... ? (lines 210-212)
run_init_vlc_source(l, ok) ==
    /\ loops[l].pc = "init_vlc_source"
    /\ loops' = Step(l, ok, "set_event_listener")
    /\ UNCHANGED <<plays, obs_connection_info, is_system_running, sleep_duration_sec,
                   calls, obs_connections, delay_call>>

\* obs.set_event_listener(rb_tx).await ... ? (lines 215-223)
run_set_event_listener(l, ok) ==
    /\ loops[l].pc = "set_event_listener"
    /\ loops' = Step(l, ok, "spawn_udp")
    /\ UNCHANGED <<plays, obs_connection_info, is_system_running, sleep_duration_sec,
                   calls, obs_connections, delay_call>>

\* mpsc::channel::<String>(32); tokio::spawn(bind_socket(tx)) (lines 226-231)
run_spawn_udp(l) ==
    /\ loops[l].pc = "spawn_udp"
    /\ loops' = SetLoop(l, [loops[l] EXCEPT !.pc = "recv", !.listener = "open"])
    /\ UNCHANGED <<plays, obs_connection_info, is_system_running, sleep_duration_sec,
                   calls, obs_connections, delay_call>>

\* bind_socket: tx.send(d) of a received datagram; waits while the channel is full
udp_send(l, d) ==
    /\ loops[l].listener = "open"
    /\ Live(l)
    /\ Len(loops[l].rx) < ChannelCapacity
    /\ loops' = SetLoop(l, [loops[l] EXCEPT
                        !.rx = Append(@, d),
                        !.sent = Append(@, d),
                        !.in_wait = IF loops[l].pc = "sleep" THEN @ + 1 ELSE @])
    /\ UNCHANGED <<plays, obs_connection_info, is_system_running, sleep_duration_sec,
                   calls, obs_connections, delay_call>>

\* bind_socket returns (bind error or transport closed): tx is dropped
udp_close(l) ==
    /\ loops[l].listener = "open"
    /\ loops' = SetLoop(l, [loops[l] EXCEPT !.listener = "closed"])
    /\ UNCHANGED <<plays, obs_connection_info, is_system_running, sleep_duration_sec,
                   calls, obs_connections, delay_call>>

\* variant: the newest message is taken first
run_recv_newest_first(l) ==
    /\ loops[l].pc = "recv"
    /\ IF loops[l].rx # <<>>
       THEN LET n == Len(loops[l].rx)
                d == loops[l].rx[n]
                r == [loops[l] EXCEPT !.rx = SubSeq(@, 1, n - 1),
                                      !.handled = Append(@, d)]
            IN  loops' = SetLoop(l,
                    IF IsTrigger(d)
                    THEN [r EXCEPT !.pc = "sleep",
                                   !.duration = sleep_duration_sec,
                                   !.elapsed = 0, !.in_wait = 0]
                    ELSE r)
       ELSE /\ loops[l].listener = "closed"
            /\ loops' = SetLoop(l, [loops[l] EXCEPT !.pc = "exited"])
    /\ UNCHANGED <<plays, obs_connection_info, is_system_running, sleep_duration_sec,
                   calls, obs_connections, delay_call>>

\* variant: a decode failure is propagated and ends the task
run_recv_decode_fatal(l) ==
    /\ loops[l].pc = "recv"
    /\ IF loops[l].rx # <<>>
       THEN LET d == Head(loops[l].rx)
                r == [loops[l] EXCEPT !.rx = Tail(@), !.handled = Append(@, d)]
            IN  loops' = SetLoop(l,
                    IF ~parse_cmd(d).ok
                    THEN [r EXCEPT !.pc = "failed"]
                    ELSE IF IsTrigger(d)
                    THEN [r EXCEPT !.pc = "sleep",
                                   !.duration = sleep_duration_sec,
                                   !.elapsed = 0, !.in_wait = 0]
                    ELSE r)
       ELSE /\ loops[l].listener = "closed"
            /\ loops' = SetLoop(l, [loops[l] EXCEPT !.pc = "exited"])
    /\ UNCHANGED <<plays, obs_connection_info, is_system_running, sleep_duration_sec,
                   calls, obs_connections, delay_call>>

\* variant: the task leaves as soon as the channel is closed, buffered
\* messages or not
run_recv_leaves_on_close(l) ==
    /\ loops[l].pc = "recv"
    /\ IF loops[l].rx # <<>> /\ loops[l].listener # "closed"
       THEN LET d == Head(loops[l].rx)
                r == [loops[l] EXCEPT !.rx = Tail(@), !.handled = Append(@, d)]
            IN  loops' = SetLoop(l,
                    IF IsTrigger(d)
                    THEN [r EXCEPT !.pc = "sleep",
                                   !.duration = sleep_duration_sec,
                                   !.elapsed = 0, !.in_wait = 0]
                    ELSE r)
       ELSE /\ loops[l].listener = "closed"
            /\ loops' = SetLoop(l, [loops[l] EXCEPT !.pc = "exited"])
    /\ UNCHANGED <<plays, obs_connection_info, is_system_running, sleep_duration_sec,
                   calls, obs_connections, delay_call>>

\* while let Some(d) = rx.recv().await { parse_cmd; match ... } up to the
\* read of sleep_duration and the start of the sleep (lines 234-245);
\* recv yields None once the channel is closed and drained (lines 254-255)
run_recv(l) ==
    /\ loops[l].pc = "recv"
    /\ IF loops[l].rx # <<>>
       THEN LET d == Head(loops[l].rx)
                r == [loops[l] EXCEPT !.rx = Tail(@), !.handled = Append(@, d)]
            IN  loops' = SetLoop(l,
                    IF IsTrigger(d)
                    THEN [r EXCEPT !.pc = "sleep",
                                   !.duration = sleep_duration_sec,
                                   !.elapsed = 0, !.in_wait = 0]
                    ELSE r)
       ELSE /\ loops[l].listener = "closed"
            /\ loops' = SetLoop(l, [loops[l] EXCEPT !.pc = "exited"])
    /\ UNCHANGED <<plays, obs_connection_info, is_system_running, sleep_duration_sec,
                   calls, obs_connections, delay_call>>

\* variant: the sleep is not awaited
SleepElapsed_at_once(l) == loops[l].elapsed >= 0

\* variant: the wait is measured against the setting as it is now
SleepElapsed_current_setting(l) == loops[l].elapsed >= sleep_duration_sec

\* tokio::time::sleep(Duration::from_secs(duration)) completes no earlier
\* than duration seconds after it was started (line 245)
SleepElapsed(l) == loops[l].elapsed >= loops[l].duration

\* one second passes for every task that is in its sleep
Sleeping(l) == loops[l].pc = "sleep" /\ loops[l].elapsed < loops[l].duration
Tick ==
    /\ \E l \in LoopIds : Sleeping(l)
    /\ loops' = [l \in LoopIds |->
                    IF Sleeping(l) THEN [loops[l] EXCEPT !.elapsed = @ + 1]
                    ELSE loops[l]]
    /\ UNCHANGED <<plays, obs_connection_info, is_system_running, sleep_duration_sec,
                   calls, obs_connections, delay_call>>

\* variant: a failed save is propagated and ends the task
run_save_propagates(l, ok) ==
    /\ loops[l].pc = "sleep"
    /\ SleepElapsed(l)
    /\ loops' = SetLoop(l, [loops[l] EXCEPT !.pc = IF ok THEN "recv" ELSE "failed",
                                            !.saves = Append(@, IF ok THEN "ok" ELSE "err")])
    /\ UNCHANGED <<plays, obs_connection_info, is_system_running, sleep_duration_sec,
                   calls, obs_connections, delay_call>>

\* variant: a failed save gives the session up and lowers the flag
run_save_lowers_flag(l, ok) ==
    /\ loops[l].pc = "sleep"
    /\ SleepElapsed(l)
    /\ loops' = SetLoop(l, [loops[l] EXCEPT !.pc = "recv",
                                            !.saves = Append(@, IF ok THEN "ok" ELSE "err")])
    /\ is_system_running' = (is_system_running /\ ok)
    /\ UNCHANGED <<plays, obs_connection_info, sleep_duration_sec,
                   calls, obs_connections, delay_call>>

\* obs.save_replay_buffer().await after the sleep; an Err is only logged
\* (lines 245-249)
run_save(l, ok) ==
    /\ loops[l].pc = "sleep"
    /\ SleepElapsed(l)
    /\ loops' = SetLoop(l, [loops[l] EXCEPT !.pc = "recv",
                                            !.saves = Append(@, IF ok THEN "ok" ELSE "err")])
    /\ UNCHANGED <<plays, obs_connection_info, is_system_running, sleep_duration_sec,
                   calls, obs_connections, delay_call>>

\* ---- next-state relations -------------------------------------------------
\* the accessors of the delay setting
DelayNext ==
    \/ get_sleep_duration
    \/ \E v \in 0..MaxDelayArg : set_sleep_duration(v)

\* the steps of the spawned tasks, the passing of time and the listeners
\* closing, common to the specifications below
TaskNext ==
    \/ \E c \in CallIds, ok \in BOOLEAN : connect_obs_connect(c, ok)
    \/ \E c \in CallIds, ok \in BOOLEAN : connect_obs_set_replay_buffer(c, ok)
    \/ \E c \in CallIds, ok \in BOOLEAN : connect_obs_init_vlc_source(c, ok)
    \/ \E c \in CallIds : connect_obs_save_info(c)
    \/ \E c \in CallIds : start_system_set_running(c)
    \/ \E c \in CallIds : start_system_spawn(c)
    \/ \E l \in LoopIds, ok \in BOOLEAN : run_connect(l, ok)
    \/ \E l \in LoopIds, ok \in BOOLEAN : run_set_replay_buffer(l, ok)
    \/ \E l \in LoopIds, ok \in BOOLEAN : run_init_vlc_source(l, ok)
    \/ \E l \in LoopIds, ok \in BOOLEAN : run_set_event_listener(l, ok)
    \/ \E l \in LoopIds : run_spawn_udp(l)
    \/ \E l \in LoopIds : run_recv(l)
    \/ \E l \in LoopIds, ok \in BOOLEAN : run_save(l, ok)
    \/ \E l \in LoopIds : udp_close(l)
    \/ Tick

\* the whole program: the front end invokes connect_obs up to MaxCalls times
\* and play_highlights up to MaxPlays times, in any interleaving
Next ==
    \/ get_sleep_duration
    \/ \E v \in RaceDelayInputs : set_sleep_duration(v)
    \/ \E c \in CallIds, ep \in Endpoints : connect_obs_guard(c, ep)
    \/ \E p \in PlayIds, v \in PathInputs : play_highlights_begin(p, v)
    \/ \E p \in PlayIds, ok \in BOOLEAN : play_highlights_connect(p, ok)
    \/ \E p \in PlayIds, ok \in BOOLEAN : play_highlights_play(p, ok)
    \/ \E l \in LoopIds, d \in RawMsgs :
            SumSent(Len(loops)) < MaxMsgs /\ udp_send(l, d)
    \/ TaskNext

Spec == Init /\ [][Next]_vars

\* one session: connect_obs is invoked once, and its listener enqueues up to
\* MaxDispatchMsgs messages
DispatchNext ==
    \/ get_sleep_duration
    \/ \E v \in DelayInputs : set_sleep_duration(v)
    \/ \E ep \in Endpoints : connect_obs_guard(1, ep)
    \/ \E l \in LoopIds, d \in RawMsgs :
            SumSent(Len(loops)) < MaxDispatchMsgs /\ udp_send(l, d)
    \/ TaskNext

DispatchSpec == Init /\ [][DispatchNext]_vars

\* the accessors alone, over every argument up to MaxDelayArg
DelaySpec == Init /\ [][DelayNext]_vars


\* ---- fairness ---------------------------------------------------------------
\* the runtime schedules every ready task and every timer fires: the steps of
\* the invocations and of the spawned tasks are taken when they stay enabled.
\* Nothing obliges the front end to invoke a command, a listener to receive a
\* datagram or its transport to close.
ScheduledNext ==
    \/ \E c \in CallIds, ok \in BOOLEAN : connect_obs_connect(c, ok)
    \/ \E c \in CallIds, ok \in BOOLEAN : connect_obs_set_replay_buffer(c, ok)
    \/ \E c \in CallIds, ok \in BOOLEAN : connect_obs_init_vlc_source(c, ok)
    \/ \E c \in CallIds : connect_obs_save_info(c)
    \/ \E c \in CallIds : start_system_set_running(c)
    \/ \E c \in CallIds : start_system_spawn(c)
    \/ \E l \in LoopIds, ok \in BOOLEAN : run_connect(l, ok)
    \/ \E l \in LoopIds, ok \in BOOLEAN : run_set_replay_buffer(l, ok)
    \/ \E l \in LoopIds, ok \in BOOLEAN : run_init_vlc_source(l, ok)
    \/ \E l \in LoopIds, ok \in BOOLEAN : run_set_event_listener(l, ok)
    \/ \E l \in LoopIds : run_spawn_udp(l)
    \/ \E l \in LoopIds : run_recv(l)
    \/ \E l \in LoopIds, ok \in BOOLEAN : run_save(l, ok)
    \/ Tick

FairSpec == Spec /\ WF_vars(ScheduledNext)

\* ---- vocabulary of the properties -----------------------------------------
\* clamp(v, 1, 30) as the specification words it
SpecClamp(v) == IF v < 1 THEN 1 ELSE IF v > 30 THEN 30 ELSE v

ValidationSteps == {"connect", "set_replay_buffer", "init_vlc_source"}
ValidationErrors == {"BackendConnectFailed", "ConfigureReplayBufferFailed",
                     "InitVideoSourceFailed"}
\* invocation c takes its first step, the guard
Guards(c) == calls[c].pc = "idle" /\ calls'[c].pc # "idle"
\* invocation c returns from one of the three validation steps
FailsValidation(c) == calls[c].pc \in ValidationSteps /\ calls'[c].pc = "done"

\* ---- C1 ---------------------------------------------------------------------
\* C1: single-flight. Under every interleaving of connect_obs invocations at
\* most one run_main_system task is live at a time, and is_system_running goes
\* from false to true only when no such task is live.
C1_SingleFlight ==
    /\ [](Cardinality(LiveLoops) <= 1)
    /\ [][(~is_system_running /\ is_system_running') => LiveLoops = {}]_vars

\* ---- C2 ---------------------------------------------------------------------
\* C2: a connect_obs invoked while is_system_running is true returns the
\* AlreadyRunning error and changes nothing: not the delay, not the stored
\* endpoint, not the flag; it opens no backend connection and spawns no task.
C2_AlreadyRunningNoSideEffects ==
    [][\A c \in CallIds :
         (Guards(c) /\ is_system_running) =>
            /\ calls'[c].pc = "done"
            /\ calls'[c].result = "AlreadyRunning"
            /\ UNCHANGED <<sleep_duration_sec, obs_connection_info,
                           is_system_running, loops, obs_connections>>]_vars

C2_Witness == \E c \in CallIds : calls[c].result = "AlreadyRunning"

\* ---- C3 ---------------------------------------------------------------------
\* C3: a connect_obs that fails at connect, set_replay_buffer or
\* init_vlc_source returns the error of that step, leaves is_system_running
\* as it was and spawns no task; the flag is raised only by an invocation
\* that has passed all three steps, so it is true only if one has.
C3_FailedStartLeavesFlag ==
    [][/\ \A c \in CallIds :
            FailsValidation(c) =>
                /\ calls'[c].result \in ValidationErrors
                /\ (calls[c].pc = "connect") = (calls'[c].result = "BackendConnectFailed")
                /\ (calls[c].pc = "set_replay_buffer")
                        = (calls'[c].result = "ConfigureReplayBufferFailed")
                /\ UNCHANGED <<is_system_running, loops>>
       /\ (is_system_running' # is_system_running) =>
            \E c \in CallIds : /\ calls[c].pc = "start_system"
                               /\ ValidationSteps \subseteq calls[c].passed
                               /\ calls'[c].pc = "spawn"
       /\ is_system_running' =>
            \E c \in CallIds : calls'[c].pc = "spawn" \/ calls'[c].result = "Ok"]_vars

C3_Witness ==
    /\ ~is_system_running
    /\ \E c \in CallIds : calls[c].result = "InitVideoSourceFailed"

\* ---- C4 ---------------------------------------------------------------------
\* C4: once a run_main_system task has terminated (channel closed, or setup
\* failed at its entry), is_system_running eventually becomes false.
C4_RunningReleased ==
    (\E l \in LoopIds : Terminated(l)) ~> ~is_system_running

\* ---- C5 ---------------------------------------------------------------------
\* C5: is_system_running never goes from true to false while a
\* run_main_system task is live, whatever the step: a failing connect_obs,
\* set/get_sleep_duration, play_highlights, a decode failure, a failed save.
C5_NoReleaseWhileLive ==
    [][(is_system_running /\ LiveLoops # {}) => is_system_running']_vars

C5_Witness ==
    /\ is_system_running
    /\ \E l \in LoopIds : Live(l) /\ loops[l].saves = <<"err">>
    /\ \E c \in CallIds : calls[c].result \in ValidationErrors

\* ---- C6 ---------------------------------------------------------------------
\* C6: set_sleep_duration(v) stores clamp(v, 1, 30) and reports the value it
\* stored; a get_sleep_duration with no set_sleep_duration in between returns
\* the clamped value of the last set.
C6_SetThenGet ==
    /\ delay_call.op = "set" =>
            /\ sleep_duration_sec = SpecClamp(delay_call.input)
            /\ delay_call.ret = sleep_duration_sec
    /\ (delay_call.op = "get" /\ delay_call.was_set) =>
            delay_call.ret = SpecClamp(delay_call.input)

C6_Witness ==
    /\ delay_call.op = "get"
    /\ delay_call.input = MaxSleepSec + 1
    /\ delay_call.ret = MaxSleepSec


\* ---- vocabulary of the dispatch properties ----------------------------------
TriggerSet == {"Scored", "EpicSave"}
Commands == {"Scored", "EpicSave", "Other"}

RECURSIVE CountTriggers(_)
CountTriggers(s) ==
    IF s = <<>> THEN 0
    ELSE (IF Head(s) \in TriggerSet THEN 1 ELSE 0) + CountTriggers(Tail(s))

\* task l dequeues a trigger command in this step
DequeuesTrigger(l) ==
    /\ Len(loops'[l].handled) = Len(loops[l].handled) + 1
    /\ loops'[l].handled[Len(loops'[l].handled)] \in TriggerSet
\* task l calls save_replay_buffer in this step
CallsSave(l) == Len(loops'[l].saves) > Len(loops[l].saves)

\* ---- C7 ---------------------------------------------------------------------
\* C7: every dequeued trigger command (Scored, EpicSave) starts one wait of
\* d seconds, d being sleep_duration_sec at the dequeue, and leads to exactly
\* one save_replay_buffer call, made when at least d seconds have passed; the
\* saves made equal the triggers dequeued, but for the one being waited for.
C7_OneDelayedSavePerTrigger ==
    [][\A l \in LoopIds :
        /\ Len(loops'[l].saves) = CountTriggers(loops'[l].handled)
                                  - (IF loops'[l].pc = "sleep" THEN 1 ELSE 0)
        /\ DequeuesTrigger(l) =>
              /\ loops'[l].pc = "sleep"
              /\ loops'[l].duration = sleep_duration_sec
              /\ loops'[l].elapsed = 0
        /\ (loops[l].pc = "sleep" /\ loops'[l].pc = "sleep") =>
              /\ loops'[l].duration = loops[l].duration
              /\ loops'[l].elapsed \in {loops[l].elapsed, loops[l].elapsed + 1}
        /\ CallsSave(l) =>
              /\ Len(loops'[l].saves) = Len(loops[l].saves) + 1
              /\ loops[l].pc = "sleep"
              /\ loops[l].elapsed >= loops[l].duration]_vars

C7_Witness ==
    \E l \in LoopIds : /\ loops[l].pc = "recv"
                       /\ Len(loops[l].saves) = 2
                       /\ CountTriggers(loops[l].handled) = 2
                       /\ loops[l].duration = MaxSleepSec
                       /\ loops[l].elapsed = MaxSleepSec

\* ---- C8 ---------------------------------------------------------------------
\* C8: during a post-trigger wait the listener can still enqueue (while the
\* channel holds fewer than 32 messages), and the task dequeues the messages
\* in the order they were enqueued, losing none: what it has handled followed
\* by what the channel holds is what the listener has sent, and it exits only
\* with the channel drained.
C8_FifoAcrossWait ==
    \A l \in LoopIds :
        /\ loops[l].handled \o loops[l].rx = loops[l].sent
        /\ Len(loops[l].rx) <= ChannelCapacity
        /\ loops[l].pc = "exited" => loops[l].rx = <<>>
        /\ (loops[l].pc = "sleep" /\ loops[l].listener = "open"
                /\ Len(loops[l].rx) < ChannelCapacity) =>
                ENABLED udp_send(l, "Scored")

C8_Witness ==
    \E l \in LoopIds : /\ loops[l].pc = "recv"
                       /\ loops[l].in_wait = 2
                       /\ loops[l].saves # <<>>
                       /\ loops[l].rx = <<>>
                       /\ loops[l].handled = <<"EpicSave", "???", "Other">>

\* ---- C9 ---------------------------------------------------------------------
\* C9: as long as a task has dequeued no trigger command it has made no
\* save_replay_buffer call and started no wait, however many other commands
\* it has decoded; there are never more saves than dequeued triggers.
C9_NoTriggerNoSave ==
    \A l \in LoopIds :
        /\ CountTriggers(loops[l].handled) = 0 =>
              /\ loops[l].saves = <<>>
              /\ loops[l].pc # "sleep"
              /\ loops[l].duration = 0 /\ loops[l].elapsed = 0
        /\ Len(loops[l].saves) <= CountTriggers(loops[l].handled)

C9_Witness ==
    \E l \in LoopIds : /\ loops[l].handled = <<"Other", "Other", "Other">>
                       /\ loops[l].saves = <<>>
                       /\ loops[l].pc = "exited"

\* ---- C10 --------------------------------------------------------------------
\* C10: a failed save_replay_buffer does not end the task: it goes back to
\* receiving with the channel untouched; a task ends only from a failed setup
\* step or on a closed, drained channel; and every trigger dequeued after a
\* failed save is still waited for and saved.
C10_SaveFailureNotFatal ==
    [][\A l \in LoopIds :
        /\ (CallsSave(l) /\ loops'[l].saves[Len(loops'[l].saves)] = "err") =>
              /\ loops'[l].pc = "recv"
              /\ loops'[l].rx = loops[l].rx
              /\ loops'[l].listener = loops[l].listener
        /\ (Live(l) /\ loops'[l].pc = "failed") =>
              loops[l].pc \in {"connect", "set_replay_buffer", "init_vlc_source",
                               "set_event_listener"}
        /\ (Live(l) /\ loops'[l].pc = "exited") =>
              loops[l].pc = "recv" /\ loops[l].rx = <<>> /\ loops[l].listener = "closed"
        /\ ("err" \in {loops[l].saves[i] : i \in 1..Len(loops[l].saves)}
                /\ DequeuesTrigger(l)) => loops'[l].pc = "sleep"]_vars

C10_Witness ==
    \E l \in LoopIds : loops[l].saves = <<"err", "ok">>


\* ---- C11 --------------------------------------------------------------------
\* task l dequeues a message in this step, and the message does not decode
Dequeues(l) == Len(loops'[l].handled) = Len(loops[l].handled) + 1
DecodeFails(l) == loops'[l].handled[Len(loops'[l].handled)] \notin Commands

\* C11: a message that does not decode is taken off the channel and nothing
\* else happens: the task stays at its receive, starts no wait, makes no save,
\* and is_system_running, sleep_duration_sec and the stored endpoint are as
\* before; the next message is then the next to be dequeued.
C11_DecodeFailureIgnored ==
    [][\A l \in LoopIds :
        (Dequeues(l) /\ DecodeFails(l)) =>
            /\ loops[l].pc = "recv"
            /\ loops'[l] = [loops[l] EXCEPT !.rx = Tail(@),
                                            !.handled = Append(@, Head(loops[l].rx))]
            /\ UNCHANGED <<is_system_running, sleep_duration_sec,
                           obs_connection_info, obs_connections>>]_vars

C11_Witness ==
    \E l \in LoopIds : /\ loops[l].handled = <<"???", "Scored">>
                       /\ loops[l].saves = <<"ok">>


\* ---- vocabulary of the playback properties ----------------------------------
\* invocation p of play_highlights takes its first step
PlayBegins(p) == plays[p].pc = "idle" /\ plays'[p].pc # "idle"
\* some step of invocation p
PlaySteps(p) == plays'[p] # plays[p]

\* ---- C12 --------------------------------------------------------------------
\* C12: play_highlights with an empty clip list returns its no-op success at
\* once, in every state, also when no endpoint was ever stored: it makes no
\* obs.connect and never reaches play_vlc_source.
C12_EmptyListNoOp ==
    [][\A p \in PlayIds :
        (PlayBegins(p) /\ plays'[p].video_paths = <<>>) =>
            /\ plays'[p].pc = "done"
            /\ plays'[p].result = "NothingToPlay"
            /\ plays'[p].played = 0
            /\ obs_connections' = obs_connections]_vars

C12_Witness ==
    /\ obs_connection_info = None
    /\ \E p \in PlayIds : plays[p].result = "NothingToPlay"


\* ---- C13 --------------------------------------------------------------------
\* no connect_obs has so far passed connect, set_replay_buffer and
\* init_vlc_source: each is not yet invoked, still at one of them, or returned
\* without success
NeverValidated ==
    \A c \in CallIds :
        \/ calls[c].pc \in {"idle"} \cup ValidationSteps
        \/ calls[c].pc = "done" /\ calls[c].result # "Ok"

\* C13: play_highlights with a non-empty clip list, invoked when no
\* connect_obs has ever passed its three validation steps, returns
\* NoConnectionInfo and makes no obs.connect; a connect_obs that failed a
\* validation step does not count as a successful one.
C13_NoConnectionInfo ==
    [][\A p \in PlayIds :
        (PlayBegins(p) /\ plays'[p].video_paths # <<>> /\ NeverValidated) =>
            /\ plays'[p].pc = "done"
            /\ plays'[p].result = "NoConnectionInfo"
            /\ obs_connections' = obs_connections]_vars

C13_Witness ==
    /\ \E p \in PlayIds : plays[p].result = "NoConnectionInfo"
    /\ \E c \in CallIds : calls[c].result = "ConfigureReplayBufferFailed"
    /\ NeverValidated


\* ---- C14 --------------------------------------------------------------------
\* invocation c of connect_obs returns success in this step
ReturnsOk(c) == calls[c].pc # "done" /\ calls'[c].pc = "done" /\ calls'[c].result = "Ok"

\* C14: a connect_obs that finds is_system_running false goes on to validate;
\* once connect, set_replay_buffer and init_vlc_source have succeeded it can
\* no longer fail; it returns success in the step that spawns exactly one
\* run_main_system task, with is_system_running true and that task not yet
\* started on its setup; and that return is enabled as soon as the flag is
\* set, whatever the tasks and listeners do.
C14_ReturnsAfterSpawn ==
    /\ [](\A c \in CallIds : calls[c].pc = "spawn" => ENABLED start_system_spawn(c))
    /\ [][/\ \A c \in CallIds :
              /\ (Guards(c) /\ ~is_system_running) => calls'[c].pc = "connect"
              /\ (calls[c].pc \in {"save_info", "start_system", "spawn"}
                        /\ calls'[c] # calls[c]) =>
                    /\ calls'[c].pc \in {"start_system", "spawn", "done"}
                    /\ calls'[c].pc = "done" => calls'[c].result = "Ok"
              /\ ReturnsOk(c) =>
                    /\ calls[c].pc = "spawn"
                    /\ is_system_running'
                    /\ Len(loops') = Len(loops) + 1
                    /\ \A l \in LoopIds : loops'[l] = loops[l]
                    /\ loops'[Len(loops')].pc = "connect"
                    /\ loops'[Len(loops')].listener = "none"
                    /\ loops'[Len(loops')].ep = calls[c].ep
                    /\ obs_connections' = obs_connections
          /\ Len(loops') # Len(loops) => \E c \in CallIds : ReturnsOk(c)]_vars

C14_Witness ==
    /\ is_system_running
    /\ \E c \in CallIds : calls[c].result = "Ok"
    /\ Len(loops) = 1
    /\ loops[1].pc = "connect"


\* ---- C15 --------------------------------------------------------------------
SetupSteps == <<"connect", "set_replay_buffer", "init_vlc_source",
                "set_event_listener", "spawn_udp", "recv">>
SetupIndex(pc) == CHOOSE i \in 1..5 : SetupSteps[i] = pc
BeforeListener == {SetupSteps[i] : i \in 1..5} \cup {"failed"}

\* C15: run_main_system sets up in the order connect, set_replay_buffer,
\* init_vlc_source, set_event_listener, start of the UDP listener, and only
\* then dispatches; a setup step is left for the next one or, on failure, for
\* the end of the task, which is final (no retry, one obs.connect per task);
\* a task that failed its setup has never had a listener, a message or a
\* save_replay_buffer call.
C15_SetupOrder ==
    [][\A l \in LoopIds :
        /\ loops'[l].pc # loops[l].pc =>
              /\ Live(l)
              /\ loops[l].pc \in {SetupSteps[i] : i \in 1..4} =>
                    loops'[l].pc \in {SetupSteps[SetupIndex(loops[l].pc) + 1], "failed"}
              /\ loops[l].pc = "connect" => obs_connections' = obs_connections + 1
              /\ loops[l].pc = "spawn_udp" =>
                    loops'[l].pc = "recv" /\ loops'[l].listener = "open"
              /\ loops[l].pc \in {"recv", "sleep"} =>
                    loops'[l].pc \in {"recv", "sleep", "exited"}
        /\ Terminated(l) => loops'[l] = loops[l]
        /\ loops'[l].pc \in BeforeListener =>
              /\ loops'[l].listener = "none"
              /\ loops'[l].sent = <<>> /\ loops'[l].handled = <<>>
              /\ loops'[l].saves = <<>>]_vars

C15_Witness ==
    \E l \in LoopIds : /\ loops[l].pc = "failed"
                       /\ loops[l].listener = "none"
                       /\ obs_connections = 2


\* ---- C16 --------------------------------------------------------------------
\* the steps of task l; the runtime keeps scheduling a task that is ready,
\* and time keeps passing
RunStep(l) ==
    /\ l \in LoopIds
    /\ \/ \E ok \in BOOLEAN : run_connect(l, ok)
       \/ \E ok \in BOOLEAN : run_set_replay_buffer(l, ok)
       \/ \E ok \in BOOLEAN : run_init_vlc_source(l, ok)
       \/ \E ok \in BOOLEAN : run_set_event_listener(l, ok)
       \/ run_spawn_udp(l)
       \/ run_recv(l)
       \/ \E ok \in BOOLEAN : run_save(l, ok)

FairDispatchSpec ==
    DispatchSpec /\ WF_vars(Tick) /\ \A l \in CallIds : WF_vars(RunStep(l))

\* C16: once the listener has closed its side of the channel the task
\* eventually leaves its loop; it leaves only on a closed and drained channel,
\* having dequeued every message sent and made the save for every trigger
\* among them, and never while the channel is open.
C16_ExitsAfterDrain ==
    /\ \A l \in CallIds :
          (l \in LoopIds /\ loops[l].listener = "closed") ~>
                (l \in LoopIds /\ loops[l].pc = "exited")
    /\ [][\A l \in LoopIds :
            (Live(l) /\ loops'[l].pc = "exited") =>
                /\ loops[l].listener = "closed"
                /\ loops[l].rx = <<>>
                /\ loops[l].handled = loops[l].sent
                /\ Len(loops[l].saves) = CountTriggers(loops[l].sent)]_vars

C16_Witness ==
    \E l \in LoopIds : /\ loops[l].pc = "exited"
                       /\ loops[l].sent = <<"Scored", "???", "EpicSave">>
                       /\ loops[l].handled = loops[l].sent
                       /\ loops[l].saves = <<"ok", "err">>


\* ---- C17 --------------------------------------------------------------------
\* C17: sleep_duration_sec is always a whole number in [1,30]: 3 until the
\* first set_sleep_duration, afterwards the clamped argument of the last one;
\* and the length of every wait of a task is such a value, the default or
\* one a set_sleep_duration can have stored.
C17_DelayInRange ==
    /\ sleep_duration_sec \in 1..30
    /\ ~delay_call.was_set => sleep_duration_sec = 3
    /\ delay_call.was_set => sleep_duration_sec = SpecClamp(delay_call.input)
    /\ \A l \in LoopIds :
          (loops[l].pc = "sleep" \/ loops[l].saves # <<>>) =>
              /\ loops[l].duration \in 1..30
              /\ loops[l].duration \in {3} \cup {SpecClamp(v) : v \in DelayInputs}
              /\ loops[l].elapsed \in 0..loops[l].duration

C17_Witness ==
    /\ sleep_duration_sec = 1
    /\ \E l \in LoopIds : /\ loops[l].pc = "sleep"
                          /\ loops[l].duration = 30
                          /\ loops[l].elapsed = 29

\* ---- C18 --------------------------------------------------------------------
\* C18: the length of a wait is the value of sleep_duration_sec when the
\* trigger is dequeued. A set_sleep_duration during the wait changes nothing
\* of the task: the save is made only once the sampled length has passed,
\* and can be made as soon as it has, whatever the setting is by then; the
\* next trigger dequeued samples the new setting.
C18_DelaySampledAtDequeue ==
    /\ [](\A l \in LoopIds :
            (loops[l].pc = "sleep" /\ loops[l].elapsed >= loops[l].duration)
                => ENABLED run_save(l, TRUE))
    /\ [][\A l \in LoopIds :
            /\ DequeuesTrigger(l) => loops'[l].duration = sleep_duration_sec
            /\ (loops[l].pc = "sleep" /\ loops'[l].pc = "sleep") =>
                    loops'[l].duration = loops[l].duration
            /\ sleep_duration_sec' # sleep_duration_sec => loops' = loops
            /\ CallsSave(l) => loops[l].elapsed >= loops[l].duration]_vars

C18_Witness ==
    /\ delay_call.op = "set"
    /\ \E l \in LoopIds : /\ loops[l].pc = "sleep"
                          /\ loops[l].elapsed > 0
                          /\ loops[l].elapsed < loops[l].duration
                          /\ loops[l].duration # sleep_duration_sec


\* ---- C19 --------------------------------------------------------------------
\* C19: whenever is_system_running is true an endpoint is stored: the
\* endpoint is written before the flag and never removed, so a
\* play_highlights with a non-empty clip list invoked while the flag is true
\* does not return NoConnectionInfo but goes on to connect to the stored
\* endpoint, under every interleaving of connect_obs and play_highlights.
C19_RunningHasEndpoint ==
    /\ [](is_system_running => obs_connection_info # None)
    /\ [][/\ obs_connection_info # None => obs_connection_info' # None
          /\ \A p \in PlayIds :
                (PlayBegins(p) /\ is_system_running /\ plays'[p].video_paths # <<>>) =>
                    /\ plays'[p].result # "NoConnectionInfo"
                    /\ plays'[p].pc = "connect"
                    /\ plays'[p].ep = obs_connection_info]_vars

C19_Witness ==
    /\ is_system_running
    /\ \E p \in PlayIds : plays[p].pc = "connect" /\ plays[p].ep = obs_connection_info
    /\ \A c \in CallIds : calls[c].pc = "done"

\* ---- C20 --------------------------------------------------------------------
\* C20: no step of play_highlights, whatever its outcome and whether or not
\* a session runs, changes is_system_running, sleep_duration_sec or the stored
\* endpoint, nor any run_main_system task (none spawned, none ended, no
\* save_replay_buffer call), nor any connect_obs invocation.
C20_PlaybackFrame ==
    [][\A p \in PlayIds :
        PlaySteps(p) =>
            UNCHANGED <<is_system_running, sleep_duration_sec, obs_connection_info,
                        loops, calls, delay_call>>]_vars

C20_Witness ==
    /\ is_system_running
    /\ LiveLoops # {}
    /\ \E p \in PlayIds : plays[p].result = "BackendConnectFailed"

=============================================================================
